---- MODULE Spec2Model ----
(***************************************************************************)
(* blinksocks: the exp-base-auth-stream preset (address delivery, HMAC     *)
(* authentication and stream encryption in one handshake frame) of one     *)
(* relay, client side and server side, the wire between them, and the      *)
(* HTTP/2 outbound's _connect.                                              *)
(*                                                                         *)
(* Buffers are sequences of bytes (0..255).  node's crypto primitives and  *)
(* the helpers of ../utils are not part of the sources; they are modelled  *)
(* by small deterministic stand-ins that keep the structure the preset     *)
(* relies on: a stream cipher whose objects carry their position (CTR and  *)
(* CFB-128 feedback), a keyed digest over the exact bytes it is given.     *)
(***************************************************************************)
EXTENDS Integers, Sequences, FiniteSets, TLC

(* ----------------------------- constants ------------------------------ *)

ATYP_V4 == 1

ATYP_V6 == 4

IV_LEN == 16

HMAC_LEN == 16

MIN_HANDSHAKE_LEN == 37

HEADER_LEN == 35

TAIL_OFFSET == 32

ciphers ==
  { "aes-128-ctr", "aes-192-ctr", "aes-256-ctr",
    "aes-128-cfb", "aes-192-cfb", "aes-256-cfb",
    "camellia-128-cfb", "camellia-192-cfb", "camellia-256-cfb" }

(* ------------------------------- bounds ------------------------------- *)

\* longest domain name the client is constructed with
MaxHostLen == 1

\* chunks the relay is handed in all, forward and backward together
MaxChunks == 2

\* concurrent calls of Http2Outbound._connect
MaxCalls == 4

\* reloads of the config file that are followed
MaxReloads == 1

(* ------------------------------ buffers ------------------------------- *)

Min(a, b) == IF a < b THEN a ELSE b

Max(a, b) == IF a > b THEN a ELSE b

\* Buffer.slice(start, end): negative indices count from the end, both are
\* clamped to the buffer, an empty range gives the empty buffer.
BufSlice(buf, start, end) ==
  LET n == Len(buf)
      s == IF start < 0 THEN Max(n + start, 0) ELSE Min(start, n)
      e == IF end < 0 THEN Max(n + end, 0) ELSE Min(end, n)
  IN  IF e <= s THEN << >> ELSE SubSeq(buf, s + 1, e)

\* Buffer.slice(start)
BufFrom(buf, start) == BufSlice(buf, start, Len(buf))

RECURSIVE Concat(_)
\* Buffer.concat(list)
Concat(list) ==
  IF list = << >> THEN << >> ELSE Head(list) \o Concat(Tail(list))

RECURSIVE SumTo(_, _)
SumTo(buf, i) == IF i = 0 THEN 0 ELSE buf[i] + SumTo(buf, i - 1)

RECURSIVE OddSumTo(_, _)
\* the bytes of buf[1..i] weighted by odd numbers: any single-bit change of
\* buf changes the sum modulo 256
OddSumTo(buf, i) == IF i = 0 THEN 0 ELSE (2 * i + 1) * buf[i] + OddSumTo(buf, i - 1)

\* bitwise exclusive or on 4-bit values: XorNib[a + 1][b + 1] is a XOR b
XorNib ==
  << << 0, 1, 2, 3, 4, 5, 6, 7, 8, 9, 10, 11, 12, 13, 14, 15 >>,
     << 1, 0, 3, 2, 5, 4, 7, 6, 9, 8, 11, 10, 13, 12, 15, 14 >>,
     << 2, 3, 0, 1, 6, 7, 4, 5, 10, 11, 8, 9, 14, 15, 12, 13 >>,
     << 3, 2, 1, 0, 7, 6, 5, 4, 11, 10, 9, 8, 15, 14, 13, 12 >>,
     << 4, 5, 6, 7, 0, 1, 2, 3, 12, 13, 14, 15, 8, 9, 10, 11 >>,
     << 5, 4, 7, 6, 1, 0, 3, 2, 13, 12, 15, 14, 9, 8, 11, 10 >>,
     << 6, 7, 4, 5, 2, 3, 0, 1, 14, 15, 12, 13, 10, 11, 8, 9 >>,
     << 7, 6, 5, 4, 3, 2, 1, 0, 15, 14, 13, 12, 11, 10, 9, 8 >>,
     << 8, 9, 10, 11, 12, 13, 14, 15, 0, 1, 2, 3, 4, 5, 6, 7 >>,
     << 9, 8, 11, 10, 13, 12, 15, 14, 1, 0, 3, 2, 5, 4, 7, 6 >>,
     << 10, 11, 8, 9, 14, 15, 12, 13, 2, 3, 0, 1, 6, 7, 4, 5 >>,
     << 11, 10, 9, 8, 15, 14, 13, 12, 3, 2, 1, 0, 7, 6, 5, 4 >>,
     << 12, 13, 14, 15, 8, 9, 10, 11, 4, 5, 6, 7, 0, 1, 2, 3 >>,
     << 13, 12, 15, 14, 9, 8, 11, 10, 5, 4, 7, 6, 1, 0, 3, 2 >>,
     << 14, 15, 12, 13, 10, 11, 8, 9, 6, 7, 4, 5, 2, 3, 0, 1 >>,
     << 15, 14, 13, 12, 11, 10, 9, 8, 7, 6, 5, 4, 3, 2, 1, 0 >> >>

\* bitwise exclusive or on bytes
Xor(a, b) ==
  16 * XorNib[(a \div 16) + 1][(b \div 16) + 1] + XorNib[(a % 16) + 1][(b % 16) + 1]

\* 2^b for a bit index of a byte
Pow2(b) == CASE b = 0 -> 1 [] b = 1 -> 2 [] b = 2 -> 4 [] b = 3 -> 8
             [] b = 4 -> 16 [] b = 5 -> 32 [] b = 6 -> 64 [] OTHER -> 128

\* utils.numberToBuffer(num, 1): one byte (the model's hosts are < 256 long)
numberToBuffer(num) == << num % 256 >>

\* Buffer.readUInt16BE(0)
readUInt16BE(buf) == buf[1] * 256 + buf[2]

(* ------------------------- text and addresses ------------------------- *)

\* Strings are sequences of code points.  Number.toString(10)
RECURSIVE Dec(_)
Dec(n) == IF n < 10 THEN << 48 + n >> ELSE Dec(n \div 10) \o << 48 + (n % 10) >>

HexDigit(d) == IF d < 10 THEN 48 + d ELSE 87 + d

\* Number.toString(16)
RECURSIVE Hex(_)
Hex(n) == IF n < 16 THEN << HexDigit(n) >> ELSE Hex(n \div 16) \o << HexDigit(n % 16) >>

RECURSIVE Join(_, _)
\* Array.join(sep) on an array of strings, sep one character
Join(parts, sep) ==
  IF parts = << >> THEN << >>
  ELSE IF Len(parts) = 1 THEN parts[1]
  ELSE parts[1] \o << sep >> \o Join(Tail(parts), sep)

\* ip.toString(buff) for a 4-byte buffer: dotted decimal
IpV4ToString(buff) == Join([i \in 1..4 |-> Dec(buff[i])], 46)

\* ip.toString(buff) for a 16-byte buffer: eight hexadecimal groups joined by
\* ':', the leftmost run of two or more zero groups replaced by '::'
IpV6ToString(buff) ==
  LET g == [i \in 1..8 |-> buff[2 * i - 1] * 256 + buff[2 * i]]
      starts == { i \in 1..7 : g[i] = 0 /\ g[i + 1] = 0 }
  IN  IF starts = {} THEN Join([i \in 1..8 |-> Hex(g[i])], 58)
      ELSE LET s == CHOOSE i \in starts : \A j \in starts : i <= j
               e == CHOOSE j \in s..8 :
                      /\ \A k \in s..j : g[k] = 0
                      /\ (j = 8 \/ g[j + 1] # 0)
           IN  Join([i \in 1..(s - 1) |-> Hex(g[i])], 58) \o << 58, 58 >>
                 \o Join([i \in 1..(8 - e) |-> Hex(g[e + i])], 58)

\* ip.toString(buff)
IpToString(buff) == IF Len(buff) = 4 THEN IpV4ToString(buff) ELSE IpV6ToString(buff)

\* Buffer.from(string): UTF-8 encoding (one byte per code point below 128,
\* two bytes up to 0x7ff)
RECURSIVE BufferFrom(_)
BufferFrom(str) ==
  IF str = << >> THEN << >>
  ELSE LET c == Head(str)
       IN  (IF c < 128 THEN << c >>
            ELSE << 192 + (c \div 64), 128 + (c % 64) >>) \o BufferFrom(Tail(str))

\* buffer.toString(): UTF-8 decoding; a byte that starts no valid sequence
\* (of one or two bytes) decodes to U+FFFD
RECURSIVE BufToString(_)
BufToString(buf) ==
  IF buf = << >> THEN << >>
  ELSE LET b == Head(buf)
       IN  IF b < 128 THEN << b >> \o BufToString(Tail(buf))
           ELSE IF /\ b >= 194 /\ b < 224 /\ Len(buf) >= 2
                   /\ buf[2] >= 128 /\ buf[2] < 192
                THEN << (b - 192) * 64 + (buf[2] - 128) >> \o BufToString(Tail(Tail(buf)))
                ELSE << 65533 >> \o BufToString(Tail(buf))

(* ------------------------------ crypto -------------------------------- *)

\* cipherName.split('-')[1]
MethodBits(name) ==
  CASE name \in { "aes-128-ctr", "aes-128-cfb", "camellia-128-cfb" } -> 128
    [] name \in { "aes-192-ctr", "aes-192-cfb", "camellia-192-cfb" } -> 192
    [] OTHER -> 256

\* cipherName.split('-')[2], the mode of operation openssl selects
MethodMode(name) ==
  IF name \in { "aes-128-ctr", "aes-192-ctr", "aes-256-ctr" } THEN "ctr" ELSE "cfb"

\* cipherName.split('-')[0], the block cipher openssl selects
MethodAlgo(name) ==
  IF name \in { "camellia-128-cfb", "camellia-192-cfb", "camellia-256-cfb" }
  THEN "camellia" ELSE "aes"

\* utils.EVP_BytesToKey(password, keyLen, ivLen): keyLen bytes that depend on
\* every byte of the password
EVP_BytesToKey(password, keyLen, ivLen) ==
  LET s == SumTo(password, Len(password))
      w == OddSumTo(password, Len(password))
  IN  [i \in 1..keyLen |-> (s * i + w + 31 * i + ivLen) % 256]

\* what a cipher or a digest keeps of its key: a number that moves with the
\* key's length and bytes
KeyMix(key) ==
  (Len(key) * 7 + key[1] * 3 + key[Len(key)] * 5 + key[(Len(key) \div 2) + 1]) % 65521

\* the block cipher E_K(block), reduced to the seed its 16 output bytes are
\* drawn from; every byte of the block counts
BlockSeed(k, b) ==
  (k * 31 + b[1] + 2 * b[2] + 3 * b[3] + 4 * b[4] + 5 * b[5] + 6 * b[6] + 7 * b[7]
     + 8 * b[8] + 9 * b[9] + 10 * b[10] + 11 * b[11] + 12 * b[12] + 13 * b[13]
     + 14 * b[14] + 15 * b[15] + 16 * b[16]) % 65521

\* byte j (0..15) of the encrypted block
KsByte(seed, j) == (seed * (2 * j + 1) + (seed \div 256) + 13 * j) % 256

RECURSIVE CtrInc(_, _)
\* the 128-bit big-endian counter plus one (i is the byte to increment)
CtrInc(block, i) ==
  IF i = 0 THEN block
  ELSE IF block[i] < 255 THEN [block EXCEPT ![i] = block[i] + 1]
  ELSE CtrInc([block EXCEPT ![i] = 0], i - 1)

\* a cipher object that was never created (null)
NullCipher ==
  [init |-> FALSE, mode |-> "", dec |-> FALSE, k |-> 0, reg |-> << >>, seed |-> 0,
   cur |-> << >>, n |-> 0]

\* crypto.createCipheriv / createDecipheriv (name, key, iv): reg is the block
\* the keystream is drawn from (the counter, or the last ciphertext block),
\* n the position inside it, cur the ciphertext of the block in progress
CreateCipher(name, key, iv, dec) ==
  LET k == KeyMix(key) + (IF MethodAlgo(name) = "aes" THEN 17 ELSE 91)
  IN  [init |-> TRUE, mode |-> MethodMode(name), dec |-> dec, k |-> k,
       reg |-> iv, seed |-> BlockSeed(k, iv), cur |-> << >>, n |-> 0]

RECURSIVE UpdateFrom(_, _, _)
\* the bytes of buf through a cipher object, block by block: out = in XOR
\* keystream; at a block boundary CTR steps the counter, CFB feeds the
\* ciphertext block back
UpdateFrom(obj, buf, out) ==
  IF buf = << >> THEN [obj |-> obj, out |-> out]
  ELSE LET m == Min(Len(buf), 16 - obj.n)
           y == [i \in 1..m |-> Xor(buf[i], KsByte(obj.seed, obj.n + i - 1))]
           c == IF obj.mode # "cfb" THEN << >>
                ELSE obj.cur \o (IF obj.dec THEN SubSeq(buf, 1, m) ELSE y)
           full == obj.n + m = 16
           reg2 == IF ~full THEN obj.reg
                   ELSE IF obj.mode = "cfb" THEN c ELSE CtrInc(obj.reg, 16)
       IN  UpdateFrom([obj EXCEPT !.n = (obj.n + m) % 16,
                                  !.cur = IF full THEN << >> ELSE c,
                                  !.reg = reg2,
                                  !.seed = IF full THEN BlockSeed(obj.k, reg2)
                                           ELSE obj.seed],
                      SubSeq(buf, m + 1, Len(buf)), out \o y)

\* cipher.update(buffer) / decipher.update(buffer)
Update(obj, buf) == UpdateFrom(obj, buf, << >>)

\* utils.hmac('sha1', key, buffer): a 20-byte keyed digest.  Byte 1 moves with
\* every single-bit change of the buffer, byte 2 with its length.
hmac(key, buf) ==
  LET n == Len(buf)
      t == OddSumTo(buf, n)
      k == KeyMix(key)
  IN  [j \in 1..20 |->
         CASE j = 1 -> (t + k) % 256
           [] j = 2 -> (n + (k \div 256)) % 256
           [] OTHER -> (t * j + (t \div 256) + k * j + 7 * n) % 256]

(* ------------------------------ preset -------------------------------- *)

\* the fields of a preset instance as the class declares them
NewPreset ==
  [isHandshakeDone |-> FALSE, host |-> << >>, port |-> << >>, cipherName |-> "",
   key |-> << >>, cipher |-> NullCipher, decipher |-> NullCipher]

\* typeof method !== 'string' || method === ''
MethodNotSet(method) == method.t # "string" \/ method.v = ""

\* faulty variant: the method compared without regard to case
MethodSupportedAnyCase(method) == method.v \in ciphers \cup { "AES-256-CTR" }

\* ciphers.includes(method)
MethodSupported(method) == method.v \in ciphers

\* constructor({type, host, port, method}) with __IS_CLIENT__ and __KEY__
Construct(isClient, type, host, port, method, KEY_) ==
  IF MethodNotSet(method) THEN [ok |-> FALSE, err |-> "must be set", p |-> NewPreset]
  ELSE IF ~MethodSupported(method)
  THEN [ok |-> FALSE, err |-> "not supported", p |-> NewPreset]
  ELSE [ok |-> TRUE, err |-> "",
        p |-> [NewPreset EXCEPT
                 !.host = IF ~isClient THEN << >>
                          ELSE IF type = ATYP_V4 \/ type = ATYP_V6
                          THEN BufferFrom(IpToString(host))
                          ELSE host,
                 !.port = IF isClient THEN port ELSE << >>,
                 !.cipherName = method.v,
                 !.key = EVP_BytesToKey(KEY_, MethodBits(method.v) \div 8, IV_LEN)]]

\* encBuf.slice(0, -buffer.length): the bytes clientOut authenticates
ClientHmacInput(encBuf, buffer) == BufSlice(encBuf, 0, 0 - Len(buffer))

\* clientOut({buffer}); iv is what crypto.randomBytes(IV_LEN) returned
clientOut(p, buffer, iv) ==
  IF ~p.isHandshakeDone
  THEN LET cipher == CreateCipher(p.cipherName, p.key, iv, FALSE)
           decipher == CreateCipher(p.cipherName, p.key, iv, TRUE)
           r == Update(cipher,
                       Concat(<< numberToBuffer(Len(p.host)), p.host, p.port, buffer >>))
           encBuf == r.out
           hmacEncAddr == BufSlice(hmac(p.key, ClientHmacInput(encBuf, buffer)), 0, HMAC_LEN)
       IN  [p |-> [p EXCEPT !.isHandshakeDone = TRUE, !.cipher = r.obj,
                            !.decipher = decipher],
            out |-> Concat(<< iv, hmacEncAddr, encBuf >>)]
  ELSE LET r == Update(p.cipher, buffer)
       IN  [p |-> [p EXCEPT !.cipher = r.obj], out |-> r.out]

\* faulty variant: the minimal length one too small
HandshakeTooShortLax(buffer) == Len(buffer) < MIN_HANDSHAKE_LEN - 1

\* buffer.length < 37
HandshakeTooShort(buffer) == Len(buffer) < MIN_HANDSHAKE_LEN

\* buffer.length <= 35 + alen
FrameTooShort(buffer, alen) == Len(buffer) <= HEADER_LEN + alen

\* buffer.slice(32, 35 + alen): the bytes serverIn authenticates
ServerHmacInput(buffer, alen) == BufSlice(buffer, TAIL_OFFSET, HEADER_LEN + alen)

\* faulty variant: only the second byte of the tags compared
HmacMatchesLoose(expHmac, hmacTag) == expHmac[2] = hmacTag[2]

\* expHmac.equals(hmacTag)
HmacMatches(expHmac, hmacTag) == expHmac = hmacTag

\* faulty variant: the address taken from the ALEN byte on
ParseAddrOffByOne(tailBuffer, alen) == BufToString(BufSlice(tailBuffer, 0, alen))

\* tailBuffer.slice(1, alen + 1).toString()
ParseAddr(tailBuffer, alen) == BufToString(BufSlice(tailBuffer, 1, alen + 1))

\* tailBuffer.slice(alen + 1, alen + 3).readUInt16BE(0)
ParsePort(tailBuffer, alen) == readUInt16BE(BufSlice(tailBuffer, alen + 1, alen + 3))

\* faulty variant: the data taken one byte early
ParseDataEarly(tailBuffer, alen) == BufFrom(tailBuffer, alen + 2)

\* tailBuffer.slice(alen + 3)
ParseData(tailBuffer, alen) == BufFrom(tailBuffer, alen + 3)

\* what a serverIn call did: kind is "fail_len1", "fail_len2", "fail_hmac"
\* (fail was called), "connect" (SOCKET_CONNECT_TO_DST was broadcast, data is
\* kept by the onConnected closure) or "data" (out was returned)
ServerResult(p, kind, alen, out, host, port, data) ==
  [p |-> p, kind |-> kind, alen |-> alen, out |-> out, host |-> host, port |-> port,
   data |-> data]

\* the !_isHandshakeDone branch of serverIn
serverInHandshake(p, buffer) ==
  IF HandshakeTooShort(buffer)
  THEN ServerResult(p, "fail_len1", -1, << >>, << >>, 0, << >>)
  ELSE LET iv == BufSlice(buffer, 0, IV_LEN)
           cipher == CreateCipher(p.cipherName, p.key, iv, FALSE)
           r == Update(CreateCipher(p.cipherName, p.key, iv, TRUE),
                       BufFrom(buffer, TAIL_OFFSET))
           tailBuffer == r.out
           hmacTag == BufSlice(buffer, IV_LEN, IV_LEN + HMAC_LEN)
           alen == tailBuffer[1]
           p2 == [p EXCEPT !.cipher = cipher, !.decipher = r.obj]
       IN  IF FrameTooShort(buffer, alen)
           THEN ServerResult(p2, "fail_len2", alen, << >>, << >>, 0, << >>)
           ELSE IF ~HmacMatches(BufSlice(hmac(p.key, ServerHmacInput(buffer, alen)), 0,
                                         HMAC_LEN), hmacTag)
           THEN ServerResult(p2, "fail_hmac", alen, << >>, << >>, 0, << >>)
           ELSE ServerResult(p2, "connect", alen, << >>, ParseAddr(tailBuffer, alen),
                             ParsePort(tailBuffer, alen), ParseData(tailBuffer, alen))

\* the else branch of serverIn: return this.decrypt(buffer)
serverInStream(p, buffer) ==
  LET r == Update(p.decipher, buffer)
  IN  ServerResult([p EXCEPT !.decipher = r.obj], "data", -1, r.out, << >>, 0, << >>)

\* faulty variant: the handshake branch taken whatever the flag says
ServerInHandshakingAlways(p) == TRUE

\* the branch serverIn takes
ServerInHandshaking(p) == ~p.isHandshakeDone

\* serverIn({buffer, next, broadcast, fail})
serverIn(p, buffer) ==
  IF ServerInHandshaking(p) THEN serverInHandshake(p, buffer)
  ELSE serverInStream(p, buffer)

\* faulty variant: the flag toggled instead of set
onConnectedToggle(p) == [p EXCEPT !.isHandshakeDone = ~p.isHandshakeDone]

\* the onConnected closure: next(data); this._isHandshakeDone = true
onConnected(p) == [p EXCEPT !.isHandshakeDone = TRUE]

\* serverOut({buffer}): this.encrypt(buffer)
serverOut(p, buffer) ==
  LET r == Update(p.cipher, buffer)
  IN  [p |-> [p EXCEPT !.cipher = r.obj], out |-> r.out]

\* clientIn({buffer}): this.decrypt(buffer)
clientIn(p, buffer) ==
  LET r == Update(p.decipher, buffer)
  IN  [p |-> [p EXCEPT !.decipher = r.obj], out |-> r.out]

(* ----------------------------- bootstrap ------------------------------ *)

\* const BOOTSTRAP_TYPE_SERVER = 1 (BOOTSTRAP_TYPE_CLIENT is 0)
BOOTSTRAP_TYPE_SERVER == 1

\* the fields of a JavaScript object that are set; obj[f] === undefined is
\* f \notin DOMAIN obj
Has(obj, f) == f \in DOMAIN obj

\* parseInt(str, 10) of a text of decimal digits: the value of its leading
\* digits, NaN (-1 here) when it starts with none
RECURSIVE ParseIntFrom(_, _, _)
ParseIntFrom(str, i, acc) ==
  IF i > Len(str) \/ str[i] \notin 48..57 THEN acc
  ELSE ParseIntFrom(str, i + 1, 10 * (IF acc < 0 THEN 0 ELSE acc) + (str[i] - 48))

parseInt(str) == ParseIntFrom(str, 1, -1)

\* the place of the last '.' of a file name, 0 when it has none
RECURSIVE LastDot(_, _)
LastDot(name, i) ==
  IF i = 0 THEN 0 ELSE IF name[i] = 46 THEN i ELSE LastDot(name, i - 1)

\* path.extname(file): from the last '.' on, empty when there is none or the
\* name starts with it
extname(file) ==
  LET d == LastDot(file, Len(file))
  IN  IF d <= 1 THEN << >> ELSE SubSeq(file, d, Len(file))

\* the fields obtainConfig assembles from the options before it reads --config
\* (lines 41-64): fields whose option is undefined are not set
Assemble(options) ==
  [f \in { "host", "port", "redirect", "log_level", "timeout", "watch", "profile" }
         \cup ({ "servers", "key", "presets" } \cap DOMAIN options) |->
     CASE f = "port" -> parseInt(options.port)
       [] f = "log_level" -> IF options.quiet THEN "error" ELSE options.logLevel
       [] f = "timeout" -> parseInt(options.timeout)
       [] f = "watch" -> options.watch
       [] f = "profile" -> options.profile
       [] OTHER -> options[f]]

\* Object.assign(config, json): the fields of json overwrite those of config
ObjectAssign(config, json) == json @@ config

\* delete config.servers
DeleteServers(config) == [f \in DOMAIN config \ { "servers" } |-> config[f]]

\* faulty variant: a leading '-' is looked for in the whole entry
ServerEnabledAnywhere(server) == \A i \in DOMAIN server : server[i] # 45

\* server[0] !== '-'
ServerEnabled(server) == Len(server) = 0 \/ server[1] # 45

\* config.servers.filter((server) => server[0] !== '-')
FilterServers(servers) == SelectSeq(servers, ServerEnabled)

\* obtainConfig(type, options); file is what --config names at the time it is
\* read: its status ("ok", "unreadable", "unparsable") and the object in it
obtainConfig(type, options, file) ==
  LET assembled == Assemble(options)
      failed == options.config # << >> /\ file.status # "ok"
      config == IF options.config # << >> /\ file.status = "ok"
                THEN ObjectAssign(assembled, file.json) ELSE assembled
  IN  IF failed THEN [ok |-> FALSE, err |-> "fail to parse", config |-> assembled]
      ELSE IF type = BOOTSTRAP_TYPE_SERVER
      THEN [ok |-> TRUE, err |-> "", config |-> DeleteServers(config)]
      ELSE IF ~Has(config, "servers")
      THEN [ok |-> FALSE, err |-> "TypeError", config |-> config]
      ELSE [ok |-> TRUE, err |-> "",
            config |-> [config EXCEPT !.servers = FilterServers(@)]]

\* Config.init(config) throws on a config it does not accept: one without a
\* key or without presets
ConfigValid(config) ==
  /\ Has(config, "key")
  /\ config.key # << >>
  /\ Has(config, "presets")
  /\ config.presets # << >>

\* the global __KEY__ once Config.init(config) has returned
ConfigKey(config) == config.key

\* params.method of the preset that config.presets configures
ConfigMethod(config) == config.presets[1].params.method

\* faulty variant: the status the process ends with taken from the sign only
ExitStatusOfSign(code) == IF code < 0 THEN 0 ELSE code

\* process.exit(code): the exit status the parent sees
ExitStatus(code) == code % 256

\* the process before module.exports runs: nothing watched, nothing required
NewProcess ==
  [status |-> "starting", code |-> 0, hub |-> "none", watching |-> FALSE,
   cache |-> << >>, read |-> << >>, reloads |-> 0, last |-> "none"]

(* ------------------------------- inputs ------------------------------- *)

\* params.method as configured: the nine ciphers and values that are none
MethodInputs ==
  { [t |-> "string", v |-> m] : m \in ciphers \cup { "", "AES-256-CTR", "rc4-md5" } }
    \cup { [t |-> "undefined", v |-> ""], [t |-> "number", v |-> "256"] }

\* __KEY__, a non-empty string once Config.init has run
Secrets == { << 115, 51, 99 >> }

\* a domain name of n bytes
Domain(n) == [i \in 1..n |-> 96 + i]

\* {type, host, port} of the destination the client preset is built for
Dests ==
  { [type |-> 3, host |-> Domain(n),
     port |-> IF n % 2 = 1 THEN << 1, 187 >> ELSE << 0, 0 >>] : n \in 0..MaxHostLen }
    \cup { [type |-> ATYP_V4, host |-> << 127, 0, 0, 1 >>, port |-> << 0, 9 >>],
           [type |-> ATYP_V6, host |-> [i \in 1..16 |-> IF i = 16 THEN 1 ELSE 0],
            port |-> << 255, 255 >>] }

\* values of crypto.randomBytes(IV_LEN)
IVs == { [i \in 1..IV_LEN |-> i], [i \in 1..IV_LEN |-> 255] }

\* what the application may send as its first forward chunk
FirstChunks == { << >>, << 104 >>, << 104, 105, 33 >> }

\* what it may send as a later forward chunk
LaterChunks == { << 33 >>, << 119, 111, 114, 108, 100 >> }

\* chunks the destination sends backward
BackChunks == { << 111 >>, << 111, 107 >> }

\* where the network may cut the first frame in two
SplitPoints == { 20, 40 }

\* config.presets with one exp-base-auth-stream preset of method m
Presets(m) ==
  << [name |-> "exp-base-auth-stream", params |-> [method |-> [t |-> "string", v |-> m]]] >>

\* --config as given: none, 'c.json' or 'c.js'
ConfigNames == { << >>, << 99, 46, 106, 115, 111, 110 >>, << 99, 46, 106, 115 >> }

\* the options of a run without --key
OptionsOf(given, type, name, quiet, logLevel, watch) ==
  [given |-> given, type |-> type, config |-> name, host |-> "localhost",
   port |-> << 49, 48, 56, 48 >>, redirect |-> "", logLevel |-> logLevel,
   timeout |-> << 54, 48, 48 >>, quiet |-> quiet, watch |-> watch, profile |-> FALSE]

\* argv as commander parsed it: client (0) or server, with and without
\* --config, --key, -q, --log-level and --watch; and a run without any option
Programs ==
  LET opts == { OptionsOf(TRUE, type, name, quiet, logLevel, watch) :
                  type \in { 0, BOOTSTRAP_TYPE_SERVER }, name \in ConfigNames,
                  quiet \in BOOLEAN, logLevel \in { "silly", "info" },
                  watch \in BOOLEAN }
  IN  opts \cup { ("key" :> << 107, 49 >>) @@ o : o \in opts }
           \cup { OptionsOf(FALSE, 0, << >>, FALSE, "silly", TRUE) }

\* what the --config file holds when it is read
JsonObjects ==
  { [key |-> << 115, 51, 99 >>, presets |-> Presets("aes-128-ctr")],
    [key |-> << 115, 51, 99 >>, presets |-> Presets("aes-128-ctr"),
     servers |-> << << 115, 49 >>, << 45, 115, 50 >>, << 115, 51 >> >>],
    [key |-> << 107, 50 >>, presets |-> Presets("aes-256-cfb"), log_level |-> "info",
     servers |-> << << 45, 115, 50 >> >>],
    [key |-> << 107, 50 >>, presets |-> Presets("aes-256-cfb"),
     servers |-> << << >>, << 97, 45, 98 >>, << 45 >> >>],
    [log_level |-> "warn", servers |-> << >>] }

\* the --config file at the time it is read: readable and well formed, or not
Files ==
  { [status |-> "ok", json |-> j] : j \in JsonObjects }
    \cup { [status |-> s, json |-> [log_level |-> "warn"]] : s \in { "unreadable", "unparsable" } }

\* the changes of the --config file while a relay is running: a new key and
\* method, or a file that cannot be parsed
ReloadFiles ==
  { [status |-> "ok", json |-> [key |-> << 107, 50 >>, presets |-> Presets("aes-256-cfb")]],
    [status |-> "unparsable", json |-> [log_level |-> "warn"]] }

\* new Hub() and app.run(): both return, or one of them throws
HubOutcomes == { "ok", "ctor_throws", "run_throws" }

\* the server the relay specifications start from: `server -c c.json`
RunningProgram ==
  OptionsOf(TRUE, BOOTSTRAP_TYPE_SERVER, << 99, 46, 106, 115, 111, 110 >>, FALSE, "silly", TRUE)

\* no preset instance yet
NotBuilt == [KEY |-> << >>, method |-> [t |-> "undefined", v |-> ""]]

(* ------------------------------- state -------------------------------- *)

VARIABLES
  method,     \* params.method of the preset configuration
  KEY,        \* the global __KEY__
  dst,        \* {type, host, port} the client preset was constructed with
  c_ctor,     \* client preset: "none", "ok" (constructed) or the error thrown
  client,     \* the client's preset instance
  s_ctor,     \* server preset: "none", "ok" or the error thrown
  server,     \* the server's preset instance
  wire_f,     \* chunks in flight client -> server
  wire_b,     \* chunks in flight server -> client
  sent_f,     \* the chunks given to client_out, in order
  sent_b,     \* the chunks given to server_out (and encrypted), in order
  s_next,     \* bytes the server preset passed on towards the destination
  c_next,     \* bytes the client preset passed back to the application
  s_events,   \* SOCKET_CONNECT_TO_DST broadcasts and fail calls of serverIn
  s_pending,  \* onConnected closures not yet invoked (each holds its data)
  s_last,     \* the last serverIn call: its input and what it did
  net,        \* the one fault the network put into the forward stream, if any;
              \* early: a chunk reached serverIn while a connect was pending;
              \* frame: the handshake frame as the client sent it
  flips,      \* times isHandshakeDone went from false to true, per instance
  thrown,     \* operations that threw on a null cipher object
  h2,         \* Http2Outbound._connect calls: session and promise
  built,      \* the __KEY__ and method each preset instance was constructed under
  program,    \* the subcommand and the options commander parsed from argv
  config,     \* the config in force: what Config.init installed last, if any
  handed,     \* the config Config.init was called with last, if any
  proc        \* the process: status, exit code, the Hub, the file watch, the
              \* module cache of require, the --config file as obtainConfig
              \* loaded it last, reloads so far and how the last attempt ended

vars ==
  << method, KEY, dst, c_ctor, client, s_ctor, server, wire_f, wire_b, sent_f, sent_b,
     s_next, c_next, s_events, s_pending, s_last, net, flips, thrown, h2, built, program,
     config, handed, proc >>

\* the state of the command line front end
bootVars == << program, config, handed, proc >>

Init ==
  /\ method \in MethodInputs
  /\ KEY \in Secrets
  /\ dst = [type |-> 0, host |-> << >>, port |-> << >>]
  /\ c_ctor = "none"
  /\ client = NewPreset
  /\ s_ctor = "none"
  /\ server = NewPreset
  /\ wire_f = << >>
  /\ wire_b = << >>
  /\ sent_f = << >>
  /\ sent_b = << >>
  /\ s_next = << >>
  /\ c_next = << >>
  /\ s_events = << >>
  /\ s_pending = << >>
  /\ s_last = [no |-> 0, handshake |-> FALSE, len |-> 0, alen |-> -1, kind |-> "none",
               whole |-> FALSE, fpos |-> -1, fbit |-> -1]
  /\ net = [fault |-> "none", early |-> FALSE, frame |-> << >>]
  /\ flips = [c |-> 0, s |-> 0]
  /\ thrown = { }
  /\ h2 = [i \in 1..MaxCalls |-> [session |-> "none", promise |-> "none"]]
  /\ built = [c |-> NotBuilt, s |-> NotBuilt]
  /\ program = RunningProgram
  /\ LET file == [status |-> "ok",
                  json |-> [key |-> KEY,
                            presets |-> << [name |-> "exp-base-auth-stream",
                                            params |-> [method |-> method]] >>]]
     IN  /\ config = << obtainConfig(program.type, program, file).config >>
         /\ proc = [NewProcess EXCEPT !.status = "running", !.hub = "running",
                                      !.watching = TRUE, !.read = << file >>,
                                      !.last = "ok"]
  /\ handed = config

(* ------------------------------ actions ------------------------------- *)

\* new ExpBaseAuthStreamPreset({type, host, port, method}) on the client
ClientConstruct ==
  /\ c_ctor = "none"
  /\ \E d \in Dests :
       LET r == Construct(TRUE, d.type, d.host, d.port, method, KEY)
       IN  /\ c_ctor' = IF r.ok THEN "ok" ELSE r.err
           /\ client' = r.p
           /\ dst' = d
           /\ built' = [built EXCEPT !.c = [KEY |-> KEY, method |-> method]]
  /\ UNCHANGED << method, KEY, s_ctor, server, wire_f, wire_b, sent_f, sent_b, s_next,
                  c_next, s_events, s_pending, s_last, net, flips, thrown, h2, bootVars >>

\* new ExpBaseAuthStreamPreset({method}) on the server
ServerConstruct ==
  /\ s_ctor = "none"
  /\ LET r == Construct(FALSE, 0, << >>, << >>, method, KEY)
     IN  /\ s_ctor' = IF r.ok THEN "ok" ELSE r.err
         /\ server' = r.p
         /\ built' = [built EXCEPT !.s = [KEY |-> KEY, method |-> method]]
  /\ UNCHANGED << method, KEY, dst, c_ctor, client, wire_f, wire_b, sent_f, sent_b, s_next,
                  c_next, s_events, s_pending, s_last, net, flips, thrown, h2, bootVars >>

\* the pipeline hands a forward chunk to clientOut and sends what it returns
ClientOut ==
  /\ c_ctor = "ok"
  /\ Len(sent_f) + Len(sent_b) < MaxChunks
  /\ \E buffer \in IF client.isHandshakeDone THEN LaterChunks ELSE FirstChunks :
       \E iv \in IF client.isHandshakeDone THEN { << >> } ELSE IVs :
         LET r == clientOut(client, buffer, iv)
         IN  /\ client' = r.p
             /\ wire_f' = Append(wire_f, [b |-> r.out, hs |-> ~client.isHandshakeDone])
             /\ sent_f' = Append(sent_f, buffer)
             /\ net' = IF client.isHandshakeDone THEN net
                       ELSE [net EXCEPT !.frame = r.out]
             /\ flips' = [flips EXCEPT !.c = IF ~client.isHandshakeDone
                                                 /\ r.p.isHandshakeDone
                                              THEN @ + 1 ELSE @]
  /\ UNCHANGED << method, KEY, dst, c_ctor, s_ctor, server, wire_b, sent_b, s_next, c_next,
                  s_events, s_pending, s_last, thrown, h2, built, bootVars >>

\* one call of serverIn on buf and what the pipeline does with its result;
\* whole: buf is the client's handshake frame as sent or with one bit
\* flipped (fpos, fbit; -1 when intact)
DoServerIn(buf, whole, fpos, fbit) ==
  LET r == serverIn(server, buf)
  IN  /\ server' = r.p
      /\ s_events' =
           CASE r.kind = "connect" ->
                  Append(s_events, [type |-> "connect", reason |-> "", host |-> r.host,
                                    port |-> r.port])
             [] r.kind \in { "fail_len1", "fail_len2", "fail_hmac" } ->
                  Append(s_events, [type |-> "fail", reason |-> r.kind, host |-> << >>,
                                    port |-> 0])
             [] OTHER -> s_events
      /\ s_pending' = IF r.kind = "connect" THEN Append(s_pending, r.data) ELSE s_pending
      /\ s_next' = IF r.kind = "data" THEN s_next \o r.out ELSE s_next
      /\ s_last' = [no |-> s_last.no + 1, handshake |-> ~server.isHandshakeDone,
                    len |-> Len(buf), alen |-> r.alen, kind |-> r.kind, whole |-> whole,
                    fpos |-> fpos, fbit |-> fbit]
      /\ net' = [net EXCEPT !.early = @ \/ (~server.isHandshakeDone /\ s_pending # << >>),
                            !.fault = IF fpos >= 0 THEN "flip" ELSE @]
      /\ flips' = [flips EXCEPT !.s = IF ~server.isHandshakeDone /\ r.p.isHandshakeDone
                                       THEN @ + 1 ELSE @]

\* the next forward chunk arrives at the server
ServerIn ==
  /\ s_ctor = "ok"
  /\ wire_f # << >>
  /\ DoServerIn(Head(wire_f).b, Head(wire_f).hs, -1, -1)
  /\ wire_f' = Tail(wire_f)
  /\ UNCHANGED << method, KEY, dst, c_ctor, client, s_ctor, wire_b, sent_f, sent_b, c_next,
                  thrown, h2, built, bootVars >>

\* byte pos (0-based) of buf with bit bit flipped
FlipBit(buf, pos, bit) ==
  [buf EXCEPT ![pos + 1] = IF (@ \div Pow2(bit)) % 2 = 1 THEN @ - Pow2(bit)
                            ELSE @ + Pow2(bit)]

\* the client's handshake frame arrives with one bit of its encrypted address
\* region (ALEN, DST.ADDR, DST.PORT) flipped on the way
ServerInFlipped ==
  /\ s_ctor = "ok"
  /\ wire_f # << >>
  /\ Head(wire_f).hs
  /\ net.fault = "none"
  /\ \E pos \in TAIL_OFFSET..(HEADER_LEN - 1 + Len(client.host)) :
       \E bit \in 0..7 :
         DoServerIn(FlipBit(Head(wire_f).b, pos, bit), TRUE, pos, bit)
  /\ wire_f' = Tail(wire_f)
  /\ UNCHANGED << method, KEY, dst, c_ctor, client, s_ctor, wire_b, sent_f, sent_b, c_next,
                  thrown, h2, built, bootVars >>

\* the network delivers the client's handshake frame as two TCP segments
Fragment ==
  /\ wire_f # << >>
  /\ Head(wire_f).hs
  /\ net.fault = "none"
  /\ \E k \in SplitPoints :
       /\ k < Len(Head(wire_f).b)
       /\ wire_f' = << [b |-> BufSlice(Head(wire_f).b, 0, k), hs |-> FALSE],
                       [b |-> BufFrom(Head(wire_f).b, k), hs |-> FALSE] >>
                      \o Tail(wire_f)
  /\ net' = [net EXCEPT !.fault = "split"]
  /\ UNCHANGED << method, KEY, dst, c_ctor, client, s_ctor, server, wire_b, sent_f, sent_b,
                  s_next, c_next, s_events, s_pending, s_last, flips, thrown, h2, built, bootVars >>

\* somebody on the path sends the handshake frame it recorded once more
Replay ==
  /\ net.frame # << >>
  /\ net.fault = "none"
  /\ wire_f' = Append(wire_f, [b |-> net.frame, hs |-> FALSE])
  /\ net' = [net EXCEPT !.fault = "replay"]
  /\ UNCHANGED << method, KEY, dst, c_ctor, client, s_ctor, server, wire_b, sent_f, sent_b,
                  s_next, c_next, s_events, s_pending, s_last, flips, thrown, h2, built, bootVars >>

\* the outbound is open: the relay invokes a pending onConnected closure
OnConnected ==
  /\ \E i \in DOMAIN s_pending :
       /\ s_next' = s_next \o s_pending[i]
       /\ s_pending' = SubSeq(s_pending, 1, i - 1) \o SubSeq(s_pending, i + 1, Len(s_pending))
  /\ server' = onConnected(server)
  /\ flips' = [flips EXCEPT !.s = IF ~server.isHandshakeDone /\ server'.isHandshakeDone
                                   THEN @ + 1 ELSE @]
  /\ UNCHANGED << method, KEY, dst, c_ctor, client, s_ctor, wire_f, wire_b, sent_f, sent_b,
                  c_next, s_events, s_last, net, thrown, h2, built, bootVars >>

\* the pipeline hands a backward chunk to serverOut and sends what it returns
ServerOut ==
  /\ s_ctor = "ok"
  /\ Len(sent_f) + Len(sent_b) < MaxChunks
  /\ \/ /\ server.cipher.init
        /\ \E buffer \in BackChunks :
             LET r == serverOut(server, buffer)
             IN  /\ server' = r.p
                 /\ wire_b' = Append(wire_b, r.out)
                 /\ sent_b' = Append(sent_b, buffer)
        /\ UNCHANGED thrown
     \/ /\ ~server.cipher.init
        /\ thrown' = thrown \cup { "serverOut" }
        /\ UNCHANGED << server, wire_b, sent_b >>
  /\ UNCHANGED << method, KEY, dst, c_ctor, client, s_ctor, wire_f, sent_f, s_next, c_next,
                  s_events, s_pending, s_last, net, flips, h2, built, bootVars >>

\* the next backward chunk arrives at the client
ClientIn ==
  /\ c_ctor = "ok"
  /\ wire_b # << >>
  /\ \/ /\ client.decipher.init
        /\ LET r == clientIn(client, Head(wire_b))
           IN  /\ client' = r.p
               /\ c_next' = c_next \o r.out
        /\ UNCHANGED thrown
     \/ /\ ~client.decipher.init
        /\ thrown' = thrown \cup { "clientIn" }
        /\ UNCHANGED << client, c_next >>
  /\ wire_b' = Tail(wire_b)
  /\ UNCHANGED << method, KEY, dst, c_ctor, s_ctor, server, wire_f, sent_f, sent_b, s_next,
                  s_events, s_pending, s_last, net, flips, h2, built, bootVars >>

\* the relay over a network that may delay, cut and repeat what it carries
Next ==
  \/ ClientConstruct
  \/ ServerConstruct
  \/ ClientOut
  \/ ServerIn
  \/ Fragment
  \/ Replay
  \/ OnConnected
  \/ ServerOut
  \/ ClientIn

Spec == Init /\ [][Next]_vars

\* the forward direction over a network that may flip a bit of the handshake
\* frame's encrypted address
NextTamper ==
  \/ ClientConstruct
  \/ ServerConstruct
  \/ ClientOut
  \/ ServerIn
  \/ ServerInFlipped
  \/ OnConnected

SpecTamper == Init /\ [][NextTamper]_vars

(* ----------------------------- http2 --------------------------------- *)

\* everything but the _connect calls
relayVars ==
  << method, KEY, dst, c_ctor, client, s_ctor, server, wire_f, wire_b, sent_f, sent_b,
     s_next, c_next, s_events, s_pending, s_last, net, flips, thrown, built, bootVars >>

\* Http2Outbound._connect({host, port}) is called: http2.connect() starts a
\* session and the returned promise waits for its 'connect' event
H2ConnectCall(i) ==
  /\ h2[i].session = "none"
  /\ h2' = [h2 EXCEPT ![i] = [session |-> "connecting", promise |-> "pending"]]
  /\ UNCHANGED relayVars

\* the session emits 'connect': the listener resolves with session.socket
H2SessionConnected(i) ==
  /\ h2[i].session = "connecting"
  /\ h2' = [h2 EXCEPT ![i] = [session |-> "connected", promise |-> "resolved"]]
  /\ UNCHANGED relayVars

\* the session fails (refused, TLS verification or negotiation): it emits
\* 'error' and 'close', for which _connect registered no listener
H2SessionFailed(i) ==
  /\ h2[i].session = "connecting"
  /\ h2' = [h2 EXCEPT ![i] = [session |-> "error", promise |-> @.promise]]
  /\ UNCHANGED relayVars

H2Connect == \E i \in 1..MaxCalls : H2ConnectCall(i)

H2OnConnect == \E i \in 1..MaxCalls : H2SessionConnected(i)

H2OnError == \E i \in 1..MaxCalls : H2SessionFailed(i)

NextH2 ==
  \/ H2Connect
  \/ H2OnConnect
  \/ H2OnError

\* every session that is connecting ends in 'connect' or in 'error': the
\* event loop delivers one of the two
SpecH2 ==
  /\ Init
  /\ [][NextH2]_vars
  /\ \A i \in 1..MaxCalls : WF_vars(H2SessionConnected(i) \/ H2SessionFailed(i))

(* --------------------------- command line ---------------------------- *)

\* the relay's state apart from the installed key and method
presetVars ==
  << dst, c_ctor, client, s_ctor, server, wire_f, wire_b, sent_f, sent_b, s_next, c_next,
     s_events, s_pending, s_last, net, flips, thrown, h2, built >>

\* the process as `blinksocks client|server ...` starts it: no config is
\* installed, __KEY__ is not set, no preset exists
InitBoot ==
  /\ method = [t |-> "undefined", v |-> ""]
  /\ KEY = << >>
  /\ dst = [type |-> 0, host |-> << >>, port |-> << >>]
  /\ c_ctor = "none"
  /\ client = NewPreset
  /\ s_ctor = "none"
  /\ server = NewPreset
  /\ wire_f = << >>
  /\ wire_b = << >>
  /\ sent_f = << >>
  /\ sent_b = << >>
  /\ s_next = << >>
  /\ c_next = << >>
  /\ s_events = << >>
  /\ s_pending = << >>
  /\ s_last = [no |-> 0, handshake |-> FALSE, len |-> 0, alen |-> -1, kind |-> "none",
               whole |-> FALSE, fpos |-> -1, fbit |-> -1]
  /\ net = [fault |-> "none", early |-> FALSE, frame |-> << >>]
  /\ flips = [c |-> 0, s |-> 0]
  /\ thrown = { }
  /\ h2 = [i \in 1..MaxCalls |-> [session |-> "none", promise |-> "none"]]
  /\ built = [c |-> NotBuilt, s |-> NotBuilt]
  /\ program \in Programs
  /\ config = << >>
  /\ handed = << >>
  /\ proc = NewProcess

\* --config names a .js file: obtainConfig loads it with require
IsJs == extname(program.config) = << 46, 106, 115 >>

\* what obtainConfig gets when the file holds f: require returns the module
\* it cached at the first successful load, readFileSync reads the file anew
Loaded(f) ==
  IF IsJs /\ proc.cache # << >> THEN [status |-> "ok", json |-> proc.cache[1]] ELSE f

\* the module cache after obtainConfig has loaded file
CacheAfter(file) ==
  IF program.config # << >> /\ IsJs /\ file.status = "ok" THEN << file.json >>
  ELSE proc.cache

\* what obtainConfig loaded, if --config is given
ReadAfter(file) == IF program.config # << >> THEN << file >> ELSE << >>

\* the process after process.exit(code)
Exited(p, code, why) ==
  [p EXCEPT !.status = "exited", !.code = ExitStatus(code), !.last = why]

\* module.exports(type, {Hub, Config}) (lines 96-134); f is what the --config
\* file holds, hub what new Hub() and app.run() do
Startup ==
  /\ proc.status = "starting"
  /\ \/ /\ ~program.given
        /\ proc' = Exited(proc, 0, "help")
        /\ UNCHANGED << KEY, method, config, handed >>
     \/ /\ program.given
        /\ \E f \in Files : \E hub \in HubOutcomes :
             LET file == Loaded(f)
                 r == obtainConfig(program.type, program, file)
                 p1 == [proc EXCEPT !.watching = program.config # << >> /\ program.watch,
                                    !.cache = CacheAfter(file), !.read = ReadAfter(file)]
             IN  IF ~r.ok
                 THEN /\ proc' = Exited(p1, -1, "obtain_failed")
                      /\ UNCHANGED << KEY, method, config, handed >>
                 ELSE IF ~ConfigValid(r.config)
                 THEN /\ proc' = Exited(p1, -1, "init_rejected")
                      /\ handed' = << r.config >>
                      /\ UNCHANGED << KEY, method, config >>
                 ELSE /\ handed' = << r.config >>
                      /\ config' = << r.config >>
                      /\ KEY' = ConfigKey(r.config)
                      /\ method' = ConfigMethod(r.config)
                      /\ proc' =
                           CASE hub = "ctor_throws" -> Exited(p1, -1, "hub_ctor_threw")
                             [] hub = "run_throws" ->
                                  Exited([p1 EXCEPT !.hub = "constructed"], -1,
                                         "hub_run_threw")
                             [] OTHER ->
                                  [p1 EXCEPT !.status = "running", !.hub = "running",
                                             !.last = "ok"]
  /\ UNCHANGED << presetVars, program >>

\* faulty variant: a reload derives the key of the existing instances anew
RekeyInstances ==
  /\ client' = IF c_ctor = "ok"
               THEN [client EXCEPT !.key = EVP_BytesToKey(KEY', MethodBits(client.cipherName) \div 8,
                                                          IV_LEN)]
               ELSE client
  /\ server' = IF s_ctor = "ok"
               THEN [server EXCEPT !.key = EVP_BytesToKey(KEY', MethodBits(server.cipherName) \div 8,
                                                          IV_LEN)]
               ELSE server

\* the watch callback calls Config.init and console only: it reaches no
\* preset instance
KeepInstances == client' = client /\ server' = server

\* the fs.watchFile callback with curr.mtime > prev.mtime (lines 113-123); f is
\* what the file holds now
Reload(f) ==
  LET file == Loaded(f)
      r == obtainConfig(program.type, program, file)
      installed == r.ok /\ ConfigValid(r.config)
  IN  /\ handed' = IF r.ok THEN << r.config >> ELSE handed
      /\ config' = IF installed THEN << r.config >> ELSE config
      /\ KEY' = IF installed THEN ConfigKey(r.config) ELSE KEY
      /\ method' = IF installed THEN ConfigMethod(r.config) ELSE method
      /\ proc' = [proc EXCEPT !.cache = CacheAfter(file), !.read = ReadAfter(file),
                              !.reloads = @ + 1,
                              !.last = IF ~r.ok THEN "obtain_failed"
                                       ELSE IF ~installed THEN "init_rejected"
                                       ELSE "reloaded"]
      /\ KeepInstances
      /\ UNCHANGED << dst, c_ctor, s_ctor, wire_f, wire_b, sent_f, sent_b, s_next, c_next,
                      s_events, s_pending, s_last, net, flips, thrown, h2, built, program >>

\* the --config file changes while the process runs and watches it
FileChanged ==
  /\ proc.status = "running"
  /\ proc.watching
  /\ proc.reloads < MaxReloads
  /\ \E f \in Files : Reload(f)

\* the command line front end alone
NextBoot ==
  \/ Startup
  \/ FileChanged

SpecBoot == InitBoot /\ [][NextBoot]_vars

\* the --config file changes while a relay is running
FileChangedRelay ==
  /\ proc.status = "running"
  /\ proc.watching
  /\ proc.reloads < MaxReloads
  /\ \E f \in ReloadFiles : Reload(f)

\* the forward direction of a relay over an intact network in a process that
\* reloads its config
NextReload ==
  \/ ClientConstruct
  \/ ServerConstruct
  \/ ClientOut
  \/ ServerIn
  \/ OnConnected
  \/ FileChangedRelay

SpecReload == Init /\ [][NextReload]_vars

(* ------------------------------ claims -------------------------------- *)

IsPrefix(a, b) == Len(a) <= Len(b) /\ a = SubSeq(b, 1, Len(a))

Fails == { "fail_len1", "fail_len2", "fail_hmac" }

\* the server emitted fail in its last serverIn call
LastFailed == s_last.kind \in Fails

\* the client's preset was built for a host of 1..255 bytes and its first
\* chunk carried DATA; the network delivered every chunk as sent, each
\* handshake chunk before the next one arrived (on_connected in between)
HonestRelay ==
  /\ c_ctor = "ok"
  /\ s_ctor = "ok"
  /\ Len(client.host) \in 1..255
  /\ sent_f # << >>
  /\ sent_f[1] # << >>
  /\ net.fault = "none"
  /\ ~net.early

\* C1: round trip.  On an honest relay whose first chunk carries DATA, what
\* the server preset passes on is the forward stream the application sent, in
\* order and complete once nothing is in flight; and what the client preset
\* passes back is the backward stream given to server_out.
RoundTrip ==
  HonestRelay =>
    /\ IsPrefix(s_next, Concat(sent_f))
    /\ (wire_f = << >> /\ s_pending = << >> /\ s_last.no > 0) => s_next = Concat(sent_f)
    /\ IsPrefix(c_next, Concat(sent_b))
    /\ wire_b = << >> => c_next = Concat(sent_b)

\* two forward chunks went through client_out and server_in and arrived
RoundTripWitness ==
  /\ HonestRelay
  /\ Len(sent_f) = 2
  /\ wire_f = << >>
  /\ s_pending = << >>
  /\ s_next = Concat(sent_f)
  /\ Len(s_next) >= 4

\* C2: fragmented handshake.  When the client's valid handshake frame arrives
\* in two segments, the first shorter than 37 bytes, serverIn does not fail on
\* the first segment.
FragmentedHandshakeTolerated ==
  ( /\ net.fault = "split"
    /\ Len(client.host) \in 1..255
    /\ sent_f[1] # << >>
    /\ s_last.no = 1
    /\ s_last.len < MIN_HANDSHAKE_LEN ) => ~LastFailed

\* the last serverIn call got the client's handshake frame, valid (ALEN in
\* 1..255, DATA not empty), with one bit of its encrypted address flipped
FlippedValidFrame ==
  /\ s_last.fpos >= 0
  /\ Len(client.host) \in 1..255
  /\ sent_f[1] # << >>

\* C3 as stated: a flipped bit in the encrypted address always ends in the
\* bad-HMAC failure.
FlipGivesBadHmac == FlippedValidFrame => s_last.kind = "fail_hmac"

\* C3 amended: a flipped bit in the encrypted address always ends in a
\* failure and no connect: bad HMAC, or the post-ALEN length failure, the
\* latter only for a bit of the ALEN byte that raises ALEN to at least the
\* frame length minus 35.
FlipRejected ==
  FlippedValidFrame =>
    /\ s_last.kind \in { "fail_hmac", "fail_len2" }
    /\ s_last.kind = "fail_len2" =>
         /\ s_last.fpos = TAIL_OFFSET
         /\ s_last.alen > Len(client.host)
         /\ s_last.len <= HEADER_LEN + s_last.alen
    /\ s_pending = << >>
    /\ \A i \in DOMAIN s_events : s_events[i].type = "fail"
    /\ ~server.isHandshakeDone

\* bit 0 of byte 32 of a valid frame was flipped and the HMAC check caught it
FlipRejectedWitness ==
  /\ FlippedValidFrame
  /\ s_last.fpos = TAIL_OFFSET
  /\ s_last.fbit = 0
  /\ s_last.kind = "fail_hmac"

\* the step is a serverIn call
ServerInStep == s_last'.no # s_last.no

\* C4: short handshake.  A first server-forward frame of fewer than 37 bytes,
\* or of at most 35 + ALEN bytes, makes serverIn call fail and nothing else:
\* no connect is broadcast and nothing is passed on.
ShortHandshakeFails ==
  [][ ( /\ ServerInStep
        /\ s_last'.handshake
        /\ \/ s_last'.len < MIN_HANDSHAKE_LEN
           \/ s_last'.alen >= 0 /\ s_last'.len <= HEADER_LEN + s_last'.alen )
      => /\ Len(s_events') = Len(s_events) + 1
         /\ s_events'[Len(s_events')].type = "fail"
         /\ SubSeq(s_events', 1, Len(s_events)) = s_events
         /\ s_pending' = s_pending
         /\ s_next' = s_next
         /\ ~server'.isHandshakeDone ]_vars

\* a first frame of exactly 36 bytes was refused
ShortHandshakeWitness ==
  /\ s_last.no = 1
  /\ s_last.len = MIN_HANDSHAKE_LEN - 1
  /\ s_last.kind = "fail_len1"
  /\ s_events = << [type |-> "fail", reason |-> "fail_len1", host |-> << >>, port |-> 0] >>

\* C5: ALEN = 0 is rejected.  No handshake frame whose decrypted ALEN is 0
\* is accepted: serverIn never broadcasts a connect for it.
AlenZeroRejected == (s_last.handshake /\ s_last.alen = 0) => s_last.kind # "connect"

\* C6: handshake idempotence.  In both instances isHandshakeDone starts
\* false, is never set back to false, and goes from false to true at most
\* once.
HandshakeDoneOnce ==
  /\ ~client.isHandshakeDone
  /\ ~server.isHandshakeDone
  /\ flips = [c |-> 0, s |-> 0]
  /\ [][ /\ client.isHandshakeDone => client'.isHandshakeDone
         /\ server.isHandshakeDone => server'.isHandshakeDone
         /\ flips'.c <= 1
         /\ flips'.s <= 1
         /\ flips'.c = (IF client'.isHandshakeDone THEN 1 ELSE 0)
         /\ flips'.s = (IF server'.isHandshakeDone THEN 1 ELSE 0) ]_vars

\* both flags are set, the server's by its second onConnected call
HandshakeDoneOnceWitness ==
  /\ client.isHandshakeDone
  /\ server.isHandshakeDone
  /\ flips = [c |-> 1, s |-> 1]
  /\ Len(s_events) = 2
  /\ s_events[2].type = "connect"
  /\ s_pending = << >>

\* C7: no retransmission of handshake.  Once isHandshakeDone is set on the
\* server, a serverIn call only runs the chunk through the existing decipher
\* and returns the result: the cipher is kept, the decipher only advances,
\* no connect is broadcast and fail is not called.
NoSecondHandshake ==
  [][ (ServerInStep /\ server.isHandshakeDone)
      => LET r == Update(server.decipher, Head(wire_f).b)
         IN  /\ server'.cipher = server.cipher
             /\ server'.decipher = r.obj
             /\ s_next' = s_next \o r.out
             /\ s_events' = s_events
             /\ s_pending' = s_pending
             /\ server'.isHandshakeDone ]_vars

\* the recorded handshake frame came again after the handshake and was
\* decrypted as payload
NoSecondHandshakeWitness ==
  /\ net.fault = "replay"
  /\ server.isHandshakeDone
  /\ s_last.kind = "data"
  /\ s_last.len >= MIN_HANDSHAKE_LEN
  /\ Len(s_events) = 1

\* the host string and the port the client preset was constructed with
DstHost == IF dst.type \in { ATYP_V4, ATYP_V6 } THEN IpToString(dst.host)
           ELSE BufToString(dst.host)

DstPort == dst.port[1] * 256 + dst.port[2]

\* C8: address delivery.  When the client's handshake frame arrives as sent
\* (host of 1..255 bytes), every connect the server broadcasts carries the
\* host string and the port the client preset was constructed with, and the
\* onConnected closure holds exactly the client's first DATA.
AddressDelivered ==
  ( /\ c_ctor = "ok"
    /\ Len(DstHost) \in 1..255
    /\ net.fault \in { "none", "replay" } )
  => /\ \A i \in DOMAIN s_events :
          s_events[i].type = "connect" =>
            /\ s_events[i].host = DstHost
            /\ s_events[i].port = DstPort
     /\ \A i \in DOMAIN s_pending : s_pending[i] = sent_f[1]
     /\ (s_last.no = 1 /\ server.isHandshakeDone) => s_next = sent_f[1]

\* the frame for 127.0.0.1:9 made the server connect to "127.0.0.1", port 9,
\* and the first DATA went on
AddressDeliveredWitness ==
  /\ dst.type = ATYP_V4
  /\ s_events = << [type |-> "connect", reason |-> "",
                    host |-> << 49, 50, 55, 46, 48, 46, 48, 46, 49 >>, port |-> 9] >>
  /\ server.isHandshakeDone
  /\ s_next = << 104, 105, 33 >>

\* C9: parameter validation.  Construction succeeds exactly when method is
\* one of the nine listed strings; otherwise the constructor throws and no
\* instance exists.
MethodValidated ==
  LET listed ==
        /\ method.t = "string"
        /\ method.v \in { "aes-128-ctr", "aes-192-ctr", "aes-256-ctr",
                          "aes-128-cfb", "aes-192-cfb", "aes-256-cfb",
                          "camellia-128-cfb", "camellia-192-cfb", "camellia-256-cfb" }
  IN  /\ c_ctor # "none" => (c_ctor = "ok" <=> listed)
      /\ s_ctor # "none" => (s_ctor = "ok" <=> listed)
      /\ c_ctor # "ok" => client = NewPreset /\ wire_f = << >>
      /\ s_ctor # "ok" => server = NewPreset /\ s_last.no = 0
      /\ c_ctor = "ok" => client.cipherName = method.v
      /\ s_ctor = "ok" => server.cipherName = method.v

\* the method in upper case was refused on both sides
MethodValidatedWitness ==
  /\ method = [t |-> "string", v |-> "AES-256-CTR"]
  /\ c_ctor = "not supported"
  /\ s_ctor = "not supported"

\* C10: HTTP/2 outbound connect failure is reported.  Every call of _connect
\* eventually completes: its promise is resolved with the socket or rejected
\* with a connect error.
H2ConnectCompletes ==
  \A i \in 1..MaxCalls :
    (h2[i].promise = "pending") ~> (h2[i].promise \in { "resolved", "rejected" })

\* the client's preset was built for a host of 1..255 bytes, its first chunk
\* carried DATA and the network delivered every chunk as sent; when the
\* outbound opens is left free
IntactRelay ==
  /\ c_ctor = "ok"
  /\ s_ctor = "ok"
  /\ Len(client.host) \in 1..255
  /\ sent_f # << >>
  /\ sent_f[1] # << >>
  /\ net.fault = "none"

\* C15: forward ordering across the connect window.  Whenever on_connected
\* runs relative to the arrival of chunks, what the server preset passes on is
\* the forward stream in order, it is complete once nothing is in flight, and
\* no chunk of an intact stream makes server_in fail.
ForwardOrdered ==
  IntactRelay =>
    /\ IsPrefix(s_next, Concat(sent_f))
    /\ (wire_f = << >> /\ s_pending = << >> /\ s_last.no > 0) => s_next = Concat(sent_f)
    /\ \A i \in DOMAIN s_events : s_events[i].type # "fail"

\* C16: the handshake tag covers the encrypted address header.  The first
\* client_out output, for a first chunk of any length, has 35 + ALEN +
\* len(DATA) bytes and its tag is the HMAC over frame bytes 32 .. 34+ALEN, the
\* range the server authenticates.
TagCoversHeader ==
  (c_ctor = "ok" /\ net.frame # << >>) =>
    /\ Len(net.frame) = HEADER_LEN + Len(client.host) + Len(sent_f[1])
    /\ BufSlice(net.frame, IV_LEN, IV_LEN + HMAC_LEN)
         = BufSlice(hmac(client.key, ServerHmacInput(net.frame, Len(client.host))), 0,
                    HMAC_LEN)

\* server_in has emitted fail on this instance
HasFailed == \E i \in DOMAIN s_events : s_events[i].type = "fail"

\* C17: failure is final.  Once server_in has emitted fail, no later server_in
\* call emits CONNECT_TO_DST or returns decrypted data, and a failing call
\* leaves isHandshakeDone false.
FailureIsFinal ==
  [][ServerInStep =>
        /\ HasFailed => s_last'.kind \notin { "connect", "data" }
        /\ s_last'.kind \in Fails => ~server'.isHandshakeDone]_vars

\* the SOCKET_CONNECT_TO_DST broadcasts so far
Connects == { i \in DOMAIN s_events : s_events[i].type = "connect" }

\* C18: at most one connect per relay.  Over any sequence of server_in calls
\* and on_connected callbacks CONNECT_TO_DST is emitted at most once, and
\* server_in takes the handshake branch only while no connect is pending.
AtMostOneConnect ==
  /\ Cardinality(Connects) <= 1
  /\ (s_last.no > 0 /\ s_last.handshake /\ s_last.kind # "connect") => s_pending = << >>

\* C19: ciphers are initialised before use.  No operation reaches encrypt or
\* decrypt on a null cipher object, and once the handshake has created the
\* pair, no later server_in call replaces it.
CiphersInitialised ==
  [][/\ thrown' = { }
     /\ (ServerInStep /\ server.cipher.init) =>
          /\ server'.cipher = server.cipher
          /\ s_last'.kind \in { "data", "fail_len1" }]_vars

\* the key an instance constructed under snapshot b derives
KeyOf(b) == EVP_BytesToKey(b.KEY, MethodBits(b.method.v) \div 8, IV_LEN)

\* a reload step of the watch callback
ReloadStep == proc'.reloads # proc.reloads

\* C11: hot reload does not reconfigure running relays.  Whatever reloads
\* happen in between, a preset instance holds the key and method of the
\* config in force at its construction and the destination it was built for,
\* a relay whose two instances were built under one config still carries the
\* stream, and a reload whose config cannot be obtained leaves the installed
\* config, __KEY__ and method as they were.
ReloadKeepsRelays ==
  [][/\ c_ctor' = "ok" =>
          /\ client'.key = KeyOf(built'.c)
          /\ client'.cipherName = built'.c.method.v
          /\ client'.port = dst'.port
          /\ client'.host = IF dst'.type \in { ATYP_V4, ATYP_V6 }
                            THEN BufferFrom(IpToString(dst'.host)) ELSE dst'.host
     /\ s_ctor' = "ok" =>
          /\ server'.key = KeyOf(built'.s)
          /\ server'.cipherName = built'.s.method.v
     /\ (HonestRelay' /\ built'.c = built'.s) =>
          /\ IsPrefix(s_next', Concat(sent_f'))
          /\ (wire_f' = << >> /\ s_pending' = << >> /\ s_last'.no > 0) =>
               s_next' = Concat(sent_f')
          /\ \A i \in DOMAIN s_events' : s_events'[i].type # "fail"
     /\ (ReloadStep /\ proc'.last = "obtain_failed") =>
          /\ config' = config
          /\ KEY' = KEY
          /\ method' = method]_vars

\* a relay whose instances were built before a reload installed another key
\* and method has carried two forward chunks
ReloadKeepsRelaysWitness ==
  /\ HonestRelay
  /\ proc.last = "reloaded"
  /\ built.c = built.s
  /\ built.c.KEY # KEY
  /\ built.c.method # method
  /\ client.key # KeyOf([KEY |-> KEY, method |-> built.c.method])
  /\ Len(sent_f) = 2
  /\ wire_f = << >>
  /\ s_pending = << >>
  /\ s_next = Concat(sent_f)

\* C12: quiet forces the log level.  Whenever -q is given, the config handed
\* to Config.init has log_level 'error', whatever --log-level says and
\* whatever the --config file holds.
QuietForcesError ==
  (program.quiet /\ handed # << >>) => handed[1].log_level = "error"

\* the reasons for which start-up or a reload did not install a config
ConfigFailures == { "obtain_failed", "init_rejected" }

\* the reasons for which start-up did not get a running Hub
HubFailures == { "hub_ctor_threw", "hub_run_threw" }

\* the config cannot be obtained from what the --config file holds now
CannotObtain ==
  \/ program.config # << >> /\ proc.read # << >> /\ proc.read[1].status # "ok"
  \/ /\ program.type # BOOTSTRAP_TYPE_SERVER
     /\ ~(program.config # << >> /\ proc.read # << >> /\ Has(proc.read[1].json, "servers"))

\* C13: start-up failure exits nonzero.  When the config cannot be obtained,
\* Config.init rejects it, or the Hub throws, start-up ends the process with a
\* nonzero status, in the first two cases without a Hub; a process that runs
\* has a valid config in force; the same failures in a reload leave the
\* process running.
StartupFailureExits ==
  [][/\ (proc.status = "starting" /\ program.given) =>
          /\ CannotObtain' => (proc'.last = "obtain_failed" /\ handed' = << >>)
          /\ proc'.last \in ConfigFailures \cup HubFailures =>
               (proc'.status = "exited" /\ proc'.code # 0)
          /\ proc'.last \in ConfigFailures => (proc'.hub = "none" /\ config' = << >>)
          /\ proc'.status = "running" <=> proc'.last = "ok"
          /\ proc'.status = "running" =>
               (proc'.hub = "running" /\ config' # << >> /\ ConfigValid(config'[1]))
     /\ ReloadStep =>
          /\ proc'.status = "running"
          /\ proc'.code = proc.code
          /\ CannotObtain' => proc'.last = "obtain_failed"
          /\ proc'.last \in ConfigFailures => config' = config]_vars

\* a client was started with a --config file that has no servers list: the
\* process is gone with status 255 and no Hub was made
StartupFailureExitsWitness ==
  /\ proc.status = "exited"
  /\ proc.last = "obtain_failed"
  /\ proc.code = 255
  /\ proc.hub = "none"
  /\ program.type = 0
  /\ proc.read # << >>
  /\ proc.read[1].status = "ok"

\* the entry starts with '-'
Disabled(entry) == Len(entry) >= 1 /\ entry[1] = 45

\* a is b with some entries left out, the order kept
RECURSIVE IsSubsequence(_, _)
IsSubsequence(a, b) ==
  IF a = << >> THEN TRUE
  ELSE IF b = << >> THEN FALSE
  ELSE IF Head(a) = Head(b) THEN IsSubsequence(Tail(a), Tail(b))
  ELSE IsSubsequence(a, Tail(b))

\* the servers list of the options merged with the --config file's
MergedServers ==
  IF program.config # << >> /\ proc.read # << >> /\ Has(proc.read[1].json, "servers")
  THEN proc.read[1].json.servers
  ELSE IF Has(program, "servers") THEN program.servers
  ELSE << >>

\* obtainConfig has just returned a config
Obtained == proc.last \in { "ok", "reloaded", "init_rejected" } \cup HubFailures

\* C14: disabled servers are filtered.  In client mode the servers of the
\* config obtained are the entries of the merged list that do not start with
\* '-', all of them and in their order; in server mode the config has no
\* servers field.
ServersFiltered ==
  (Obtained /\ proc.status # "starting" /\ handed # << >>) =>
    IF program.type = BOOTSTRAP_TYPE_SERVER THEN ~Has(handed[1], "servers")
    ELSE /\ Has(handed[1], "servers")
         /\ \A i \in DOMAIN handed[1].servers : ~Disabled(handed[1].servers[i])
         /\ IsSubsequence(handed[1].servers, MergedServers)
         /\ Len(handed[1].servers)
              = Cardinality({ i \in DOMAIN MergedServers : ~Disabled(MergedServers[i]) })

\* a client obtained its config from a file whose list has an empty entry, an
\* entry with '-' inside and the entry '-': the first two are kept
ServersFilteredWitness ==
  /\ Obtained
  /\ program.type = 0
  /\ handed # << >>
  /\ Has(handed[1], "servers")
  /\ Len(MergedServers) = 3
  /\ handed[1].servers = << << >>, << 97, 45, 98 >> >>

====
